---- MODULE Spec2Model ----
(***************************************************************************)
(* rocket_newrelic: a Rocket fairing that attaches a New Relic transaction *)
(* to a request (src/src/lib.rs).                                          *)
(*                                                                         *)
(* The model follows one request through the pipeline                      *)
(*   arrived -> handling -> sending -> dropped                             *)
(* and, inside "handling", the public entry points of the crate:           *)
(*   NewRelic::on_request, NewRelic::on_response (the fairing hooks),      *)
(*   <&Transaction as FromRequest>::from_request (the accessor),           *)
(*   Transaction::add_attribute / custom_segment / datastore_segment /     *)
(*   external_segment.                                                     *)
(* Transaction is Sync, so the operations on it may be called by several   *)
(* tasks of one request at once, and a segment body may call them again    *)
(* (nesting).  The model puts no order between on_response and the tasks'  *)
(* operations: the only thing that arbitrates between them in the code is  *)
(* the RwLock of InnerTransaction.                                         *)
(*                                                                         *)
(* Before any request, NewRelic::from_env builds the fairing from the      *)
(* environment; it is modelled step by step (SpecEnv).  The name of the    *)
(* backend transaction is computed from the matched route (SpecName), and  *)
(* two requests in flight share nothing but the fairing (SpecIso).         *)
(*                                                                         *)
(* The diesel module (lib.rs 549-650) is feature-gated and is not part of  *)
(* the default build; it is not modelled.                                  *)
(***************************************************************************)
EXTENDS Naturals, Sequences, FiniteSets

VARIABLES
    phase,      \* [request -> "arrived" | "handling" | "sending" | "dropped"]
    appCache,   \* the request-local cache slot of type AppWrapper
    txnCache,   \* the request-local cache slot of type Transaction
    hook,       \* position of on_response: [pc, status]
    responded,  \* on_response has returned at least once
    readers,    \* RwLock: number of read guards alive
    writer,     \* RwLock: the write guard is alive
    poisoned,   \* RwLock: a writer panicked while holding the guard
    lockPolicy, \* whether a waiting writer blocks new readers (platform)
    stack,      \* [request -> [task -> Seq(frame)]]: the calls in progress
    lockFault,  \* an operation unwound into its caller on a lock error
    handed,     \* the transactions the accessor has returned so far
    bStarts,    \* backend: number of web_transaction calls
    bState,     \* backend: "none" | "running" | "ended"
    bAttrs,     \* backend: attributes recorded on the transaction
    bErrors,    \* backend: error annotations recorded on the transaction
    bEnds,      \* backend: number of finalizations performed
    bSegs,      \* backend: a segment was started on the transaction
    bName,      \* backend: the name web_transaction was given
    route,      \* [request -> the route Rocket matched it to]
    boot        \* NewRelic::from_env: environment, position, result

vars == <<phase, appCache, txnCache, hook, responded, readers, writer,
          poisoned, lockPolicy, stack, lockFault, handed, bStarts, bState, bAttrs,
          bErrors, bEnds, bSegs, bName, route, boot>>

lockVars    == <<readers, writer, poisoned, lockPolicy>>
backendVars == <<bStarts, bState, bAttrs, bErrors, bEnds, bSegs, bName>>
setupVars   == <<boot, route>>
cacheVars   == <<appCache, txnCache>>
requestVars == <<phase, cacheVars, hook, responded, lockVars, stack,
                 lockFault, handed, backendVars, route>>

(***************************************************************************)
(* Bounds and input sets                                                   *)
(***************************************************************************)
MaxDepth == 2

MainRequests == {"A"}
Handler      == {"t1"}
Values       == {"v1", "v2"}
Statuses     == {201, 404, 500}
Keys         == {"uri", "k"}
AttrValues   == {"a", "b"}
RequestUri   == "/users?x=1"
Absent       == "absent"

\* the smaller inputs of the runs with two tasks per request
ConcSegments == {"custom_segment", "datastore_segment"}
ConcValues   == {"v1"}
ConcStatuses == {500}
ConcKeys     == {"k"}
ConcAttrValues == {"a"}
IsoSegments  == {"custom_segment"}

\* the requests and tasks the quantifiers of Next range over; a run has the
\* requests and tasks its initial state gives it
AllRequests == {"A", "B"}
AllTasks    == {"t1", "t2"}

Reqs     == DOMAIN phase
Tasks(r) == DOMAIN stack[r]
Live(r, t) == r \in Reqs /\ t \in Tasks(r)

(***************************************************************************)
(* Rocket: Request::local_cache, Status                                    *)
(***************************************************************************)
\* whether local_cache runs its closure: only when nothing is cached
RunsClosure(empty) == empty

\* request.local_cache(f): the slot's value if one is cached, else f()'s
\* value, which it caches.
LocalCache(slot, empty, init) == IF RunsClosure(empty) THEN init ELSE slot

\* the Transaction slot: Transaction::Running(..) | Transaction::None, or
\* nothing cached yet; id tells the backend transactions apart
Txn(variant, id) == [variant |-> variant, id |-> id]
Unset    == Txn("Unset", 0)
Inert    == Txn("None", 0)

\* status.class().is_success()
IsSuccess(status) == status \div 100 = 2

\* status.to_string(): "<code> <reason>"
StatusToString(status) ==
    CASE status = 201 -> "201 Created"
      [] status = 404 -> "404 Not Found"
      [] status = 500 -> "500 Internal Server Error"

(***************************************************************************)
(* Rocket: Route.  A string is the sequence of its characters; a handler   *)
(* name is one symbol.                                                     *)
(***************************************************************************)
UnknownHandler == "unknown_handler"

\* request.route(): Some(route) with base: Origin and name: Option<&str>,
\* or None
Route(base, name) == [matched |-> TRUE, base |-> base, name |-> name]
NoRoute == [matched |-> FALSE, base |-> <<>>, name |-> Absent]

UsersBase == <<"/", "u", "s", "e", "r", "s">>
MainRoute == Route(UsersBase, "create_user")

\* the mount points are normalized origins: one leading "/", no empty
\* segment
Routes ==
    { MainRoute,
      Route(UsersBase, Absent),
      Route(<<"/">>, "index"),
      Route(<<"/">>, Absent),
      Route(<<"/", "a", "/", "v", "1">>, "get_me"),
      NoRoute }

\* str::trim_start_matches(c): the string without its leading c's
RECURSIVE TrimStartMatches(_, _)
TrimStartMatches(str, c) ==
    IF str # <<>> /\ Head(str) = c THEN TrimStartMatches(Tail(str), c)
    ELSE str

\* (mutant) the base is used as it is
TransactionNameWholeBase(rt) ==
    IF rt.matched
    THEN rt.base \o <<"/">>
         \o <<IF rt.name = Absent THEN UnknownHandler ELSE rt.name>>
    ELSE <<UnknownHandler>>

\* transaction_name in Transaction::new
TransactionName(rt) ==
    IF rt.matched
    THEN TrimStartMatches(rt.base, "/") \o <<"/">>
         \o <<IF rt.name = Absent THEN UnknownHandler ELSE rt.name>>
    ELSE <<UnknownHandler>>

(***************************************************************************)
(* std::sync::RwLock                                                       *)
(***************************************************************************)
WriterWaiting(r) == hook[r].pc = "write"

\* (mutant) a lock that admits one holder at a time
CanReadExclusive(r) == ~writer[r] /\ readers[r] = 0

\* read() returns: no writer holds the lock and, where the platform lets
\* waiting writers go first, none is waiting
CanRead(r) ==
    /\ ~writer[r]
    /\ lockPolicy = "writer_pref" => ~WriterWaiting(r)

\* write() returns: nobody holds the lock
CanWrite(r) == ~writer[r] /\ readers[r] = 0

(***************************************************************************)
(* The backend (crate newrelic), as the crate uses it                      *)
(***************************************************************************)
NoAttrs == [k \in Keys |-> Absent]

\* transaction.add_attribute(key, value): recorded while the transaction
\* runs and the backend accepts it
BackendAddAttribute(attrs, state, key, value, accepted) ==
    IF state = "running" /\ accepted THEN [attrs EXCEPT ![key] = value]
    ELSE attrs

\* transaction.notice_error(priority, message, class)
BackendNoticeError(errors, state, priority, message, class, accepted) ==
    IF state = "running" /\ accepted
    THEN Append(errors, [priority |-> priority, message |-> message,
                         class |-> class])
    ELSE errors

\* transaction.end(): finalizes a running transaction; nothing to do on an
\* ended one
BackendEndState(state) == IF state = "running" THEN "ended" ELSE state
\* (mutant) end() finalizes whatever the state
BackendEndCountAlways(state, ends) == ends + 1

BackendEndCount(state, ends) == IF state = "running" THEN ends + 1 ELSE ends

(***************************************************************************)
(* Frames                                                                  *)
(***************************************************************************)
Segments == {"custom_segment", "datastore_segment", "external_segment"}

\* op: the operation; pc: where it is; path: the arm it took; calls: how
\* often it has called the backend (add_attribute) or its body (segments);
\* ctx: the segment the body was given; bodyRet, ret: what the body and the
\* operation returned; outcome: the request::Outcome of from_request; key,
\* value: the arguments of add_attribute; answer: what the backend's
\* add_attribute answered ("ok", "err") when it was called, by
\* add_attribute or, for "uri", by Transaction::new
Frame(op, pc, path, calls, bodyRet, ret) ==
    [op |-> op, pc |-> pc, path |-> path, calls |-> calls, ctx |-> "-",
     bodyRet |-> bodyRet, ret |-> ret, outcome |-> "-",
     key |-> "-", value |-> "-", answer |-> "-"]

Top(r, t)      == stack[r][t][Len(stack[r][t])]
Depth(r, t)    == Len(stack[r][t])
Idle(r, t)     == stack[r][t] = <<>>
Push(r, t, f)  == [stack EXCEPT ![r][t] = Append(@, f)]
SetTop(r, t, f) == [stack EXCEPT ![r][t] = [@ EXCEPT ![Len(@)] = f]]
PopTop(r, t)   == [stack EXCEPT ![r][t] = SubSeq(@, 1, Len(@) - 1)]

\* a task can start an operation on the transaction: from the handler, or
\* from the body of a segment it is running
CanCall(r, t) ==
    /\ phase[r] = "handling"
    /\ txnCache[r] # Unset
    /\ IF Idle(r, t) THEN TRUE
       ELSE Depth(r, t) < MaxDepth /\ Top(r, t).pc = "body"

FramePositions(r) ==
    UNION {{<<t, i>> : i \in 1..Len(stack[r][t])} : t \in Tasks(r)}
FramesOf(r) == {stack[r][p[1]][p[2]] : p \in FramePositions(r)}
AllIdle(r)  == \A t \in Tasks(r) : Idle(r, t)

NoRet == "-"

HookIdle == [pc |-> "idle", status |-> 0, noticed |-> "none"]

(***************************************************************************)
(* NewRelic::from_env                                                      *)
(***************************************************************************)
NotUnicode == "not_unicode"

AppNames    == {Absent, NotUnicode, "my_app"}
LicenseKeys == {Absent, NotUnicode, "my_key"}
LogLevels   == {Absent, NotUnicode, "error", "warn", "info", "INFO", "debug",
                "trace", "off", "verbose", ""}
Environments == [app : AppNames, key : LicenseKeys, level : LogLevels]

\* env::var(name): Ok(value) when the variable is set to valid unicode
EnvVar(value) == IF value \in {Absent, NotUnicode} THEN "Err" ELSE "Ok"

\* level.parse() to log::Level: the level names, ASCII case ignored; "off"
\* names a LevelFilter, not a Level
ParseLevel(str) ==
    CASE str = "error" -> "Error"
      [] str = "warn" -> "Warn"
      [] str \in {"info", "INFO"} -> "Info"
      [] str = "debug" -> "Debug"
      [] str = "trace" -> "Trace"
      [] OTHER -> "Err"

\* (mutant) the parse error is propagated
LevelOrFail(parsed) == parsed

\* the match on level.parse(): Err(_) => log::Level::Info
LevelOrDefault(parsed) == IF parsed = "Err" THEN "Info" ELSE parsed

\* from_env is about to read the first variable
BootStart(e) ==
    [env |-> e, pc |-> "app_name", level |-> "-", inits |-> 0,
     registrations |-> 0, result |-> "-", cause |-> "-"]

\* the fairing the requests go through has been built
Built ==
    [env |-> [app |-> "my_app", key |-> "my_key", level |-> Absent],
     pc |-> "done", level |-> "-", inits |-> 0, registrations |-> 1,
     result |-> "Ok", cause |-> "-"]

BootFail(cause) == [boot EXCEPT !.pc = "done", !.result = "Err",
                                !.cause = cause]

(***************************************************************************)
(* Initial state: a request has arrived, nothing is cached                 *)
(***************************************************************************)
InitFor(requests, tasks, routes) ==
    /\ phase     = [r \in requests |-> "arrived"]
    /\ appCache  = [r \in requests |-> "Unset"]
    /\ txnCache  = [r \in requests |-> Unset]
    /\ hook      = [r \in requests |-> HookIdle]
    /\ responded = [r \in requests |-> FALSE]
    /\ readers   = [r \in requests |-> 0]
    /\ writer    = [r \in requests |-> FALSE]
    /\ poisoned  = [r \in requests |-> FALSE]
    /\ lockPolicy \in {"reader_pref", "writer_pref"}
    /\ stack     = [r \in requests |-> [t \in tasks |-> <<>>]]
    /\ lockFault = [r \in requests |-> FALSE]
    /\ handed    = [r \in requests |-> {}]
    /\ bStarts   = [r \in requests |-> 0]
    /\ bState    = [r \in requests |-> "none"]
    /\ bAttrs    = [r \in requests |-> NoAttrs]
    /\ bErrors   = [r \in requests |-> <<>>]
    /\ bEnds     = [r \in requests |-> 0]
    /\ bSegs     = [r \in requests |-> FALSE]
    /\ bName     = [r \in requests |-> <<>>]
    /\ route     \in [requests -> routes]

Init == InitFor(MainRequests, Handler, {MainRoute}) /\ boot = Built

(***************************************************************************)
(* The pipeline around the hooks                                           *)
(***************************************************************************)
\* (mutant) the fairing keeps one slot for all the requests
CacheOwnerShared(r) == "A"

\* request.local_cache: the cache is the request's own
CacheOwner(r) == r

\* NewRelic::on_request: caches AppWrapper::App(handle)
OnRequest(r) ==
    /\ r \in Reqs
    /\ phase[r] = "arrived"
    /\ appCache' = [appCache EXCEPT ![CacheOwner(r)] =
                        LocalCache(@, @ = "Unset", "App")]
    /\ phase' = [phase EXCEPT ![r] = "handling"]
    /\ UNCHANGED <<setupVars, txnCache, hook, responded, lockVars, stack,
                   lockFault, handed, backendVars>>

\* the fairing is not attached: the request is routed without on_request
RouteUnattached(r) ==
    /\ r \in Reqs
    /\ phase[r] = "arrived"
    /\ phase' = [phase EXCEPT ![r] = "handling"]
    /\ UNCHANGED <<setupVars, cacheVars, hook, responded, lockVars, stack,
                   lockFault, handed, backendVars>>

(***************************************************************************)
(* Transaction::new and from_request                                       *)
(***************************************************************************)
\* (mutant) Transaction::new is evaluated before local_cache is asked
CallsNewEagerly(empty) == TRUE

\* Transaction::new runs inside the closure given to local_cache
CallsNew(empty) == RunsClosure(empty)

\* (mutant) the backend's error is ignored
NewTransactionAlwaysRunning(started, id) == Txn("Running", id)

\* what Transaction::new returns for the backend's answer
NewTransaction(started, id) ==
    IF started THEN Txn("Running", id) ELSE Inert

\* (mutant) a rejected "uri" attribute gives the transaction up
SurvivesUriOnlyIfRecorded(uriOk) == uriOk

\* if let Err(e) = transaction.add_attribute("uri", ..): only warns, and
\* Transaction::Running is built either way
SurvivesUri(uriOk) == TRUE

\* (mutant) the accessor creates a transaction without looking at the slot
AccessorArmAlwaysApp(app) == "app"

\* the arm of from_request's match on the AppWrapper slot
AccessorArm(app) == IF app = "App" THEN "app" ELSE "no_app"

\* (mutant) the accessor fails the request when nothing is being traced
AccessorOutcomeStrict(variant) ==
    IF variant = "Running" THEN "Success" ELSE "Failure"

\* Outcome::Success(transaction), whatever the transaction
AccessorOutcome(variant) == "Success"

\* from_request, first lookup: request.local_cache(|| AppWrapper::None)
FromRequestApp(r, t) ==
    /\ Live(r, t)
    /\ phase[r] = "handling"
    /\ Idle(r, t)
    /\ LET app == LocalCache(appCache[r], appCache[r] = "Unset", "None") IN
        /\ appCache' = [appCache EXCEPT ![r] = app]
        /\ stack' = Push(r, t, Frame("from_request", "txn",
                         AccessorArm(app), 0, NoRet, NoRet))
    /\ UNCHANGED <<setupVars, phase, txnCache, hook, responded, lockVars,
                   lockFault, handed, backendVars>>

\* from_request, second lookup, with the handle:
\* request.local_cache(|| Transaction::new(app, request))
FromRequestNew(r, t) ==
    /\ Live(r, t)
    /\ ~Idle(r, t)
    /\ Top(r, t).op = "from_request" /\ Top(r, t).pc = "txn"
    /\ Top(r, t).path = "app"
    /\ \E started \in BOOLEAN, uriOk \in BOOLEAN :
        LET empty   == txnCache[r] = Unset
            calls   == CallsNew(empty)
            id      == bStarts[r] + 1
            created == NewTransaction(started /\ SurvivesUri(uriOk), id)
            txn     == LocalCache(txnCache[r], empty, created)
            stored  == calls /\ txn = created /\ started
        IN  /\ calls \/ (~started /\ ~uriOk)
            /\ started \/ ~uriOk
            /\ txnCache' = [txnCache EXCEPT ![r] = txn]
            /\ bStarts' = [bStarts EXCEPT ![r] = IF calls THEN id ELSE @]
            /\ bName' = [bName EXCEPT ![r] =
                            IF calls THEN TransactionName(route[r]) ELSE @]
            /\ bState' = [bState EXCEPT ![r] =
                             IF stored THEN "running" ELSE @]
            /\ bAttrs' = [bAttrs EXCEPT ![r] =
                             IF stored
                             THEN BackendAddAttribute(NoAttrs, "running",
                                      "uri", RequestUri, uriOk)
                             ELSE @]
            /\ handed' = [handed EXCEPT ![r] = @ \cup {txn}]
            /\ stack' = SetTop(r, t,
                   [Frame("from_request", "returned",
                          IF calls THEN "created" ELSE "memoized",
                          0, NoRet, txn.variant)
                       EXCEPT !.outcome = AccessorOutcome(txn.variant),
                              !.answer = IF ~(calls /\ started) THEN "-"
                                         ELSE IF uriOk THEN "ok" ELSE "err"])
    /\ UNCHANGED <<setupVars, phase, appCache, hook, responded, lockVars,
                   lockFault, bErrors, bEnds, bSegs>>

\* from_request, second lookup, without a handle:
\* request.local_cache(|| Transaction::None)
FromRequestNone(r, t) ==
    /\ Live(r, t)
    /\ ~Idle(r, t)
    /\ Top(r, t).op = "from_request" /\ Top(r, t).pc = "txn"
    /\ Top(r, t).path = "no_app"
    /\ LET empty == txnCache[r] = Unset
           txn   == LocalCache(txnCache[r], empty, Inert)
       IN  /\ txnCache' = [txnCache EXCEPT ![r] = txn]
           /\ handed' = [handed EXCEPT ![r] = @ \cup {txn}]
           /\ stack' = SetTop(r, t,
                  [Frame("from_request", "returned",
                         IF empty THEN "created" ELSE "memoized",
                         0, NoRet, txn.variant)
                      EXCEPT !.outcome = AccessorOutcome(txn.variant)])
    /\ UNCHANGED <<setupVars, phase, appCache, hook, responded, lockVars,
                   lockFault, backendVars>>

\* an operation has returned to its caller
Return(r, t) ==
    /\ Live(r, t)
    /\ ~Idle(r, t)
    /\ Top(r, t).pc = "returned"
    /\ stack' = PopTop(r, t)
    /\ UNCHANGED <<setupVars, phase, cacheVars, hook, responded, lockVars,
                   lockFault, handed, backendVars>>

(***************************************************************************)
(* Transaction::add_attribute                                              *)
(***************************************************************************)
\* the arm add_attribute takes
AttrPath(variant, poison) ==
    IF variant # "Running" THEN "inert"
    ELSE IF poison THEN "lock_failed" ELSE "forward"

\* (mutant) every arm that took the lock calls the backend
ForwardsAttrAlways(path) == TRUE

\* the arms of add_attribute that call the backend
ForwardsAttr(path) == path = "forward"

\* (mutant) the lock result is unwrapped
PropagatesLockErrorUnwrap(path) == path = "lock_failed"

\* the arms of an operation that unwind into the caller on a lock error
PropagatesLockError(path) == FALSE

\* add_attribute is called
AttrCall(r, t) ==
    /\ Live(r, t)
    /\ CanCall(r, t)
    /\ LET inert == AttrPath(txnCache[r].variant, FALSE) = "inert" IN
        stack' = Push(r, t, Frame("add_attribute",
                     IF inert THEN "returned" ELSE "read",
                     IF inert THEN "inert" ELSE NoRet, 0, NoRet, NoRet))
    /\ UNCHANGED <<setupVars, phase, cacheVars, hook, responded, lockVars,
                   lockFault, handed, backendVars>>

\* inner.0.read() returns in add_attribute
AttrLock(r, t) ==
    /\ Live(r, t)
    /\ ~Idle(r, t)
    /\ Top(r, t).op = "add_attribute" /\ Top(r, t).pc = "read"
    /\ CanRead(r)
    /\ readers' = [readers EXCEPT ![r] = @ + 1]
    /\ stack' = SetTop(r, t, [Top(r, t) EXCEPT !.pc = "held",
                    !.path = AttrPath(txnCache[r].variant, poisoned[r])])
    /\ UNCHANGED <<setupVars, phase, cacheVars, hook, responded, writer,
                   poisoned, lockPolicy, lockFault, handed, backendVars>>

\* the arm runs and the guard is dropped
AttrForward(r, t, key, value) ==
    /\ Live(r, t)
    /\ ~Idle(r, t)
    /\ Top(r, t).op = "add_attribute" /\ Top(r, t).pc = "held"
    /\ \E accepted \in BOOLEAN :
        LET sends == ForwardsAttr(Top(r, t).path) IN
        /\ sends \/ accepted
        /\ bAttrs' = [bAttrs EXCEPT ![r] =
                         IF sends
                         THEN BackendAddAttribute(@, bState[r], key, value,
                                                  accepted)
                         ELSE @]
        /\ stack' = SetTop(r, t, [Top(r, t) EXCEPT !.pc = "returned",
                        !.calls = IF sends THEN 1 ELSE 0,
                        !.key = key, !.value = value,
                        !.answer = IF ~sends THEN "-"
                                   ELSE IF accepted THEN "ok" ELSE "err"])
    /\ readers' = [readers EXCEPT ![r] = @ - 1]
    /\ lockFault' = [lockFault EXCEPT ![r] =
                        @ \/ PropagatesLockError(Top(r, t).path)]
    /\ UNCHANGED <<setupVars, phase, cacheVars, hook, responded, writer,
                   poisoned, lockPolicy, handed, bStarts, bState, bErrors,
                   bEnds, bSegs, bName>>

(***************************************************************************)
(* Transaction::custom_segment, datastore_segment, external_segment        *)
(***************************************************************************)
\* the arm a segment runner takes
SegmentPath(op, variant, poison, paramsOk) ==
    IF variant # "Running" THEN "inert"
    ELSE IF poison THEN "lock_failed"
    ELSE IF op = "custom_segment" \/ paramsOk THEN "segment"
    ELSE "params_failed"

\* the arms that hand the body to the backend's segment runner
UsesBackend(path) == path = "segment"

\* the segment an arm gives the body: the backend's, or Default::default()
SegmentContext(path) == IF UsesBackend(path) THEN "backend" ELSE "noop"

\* (mutant) the guard is released once the backend has been handed the
\* segment's parameters, before the body runs
HoldsGuardUntilSegment(path) == path \in {"params_failed", "lock_failed"}

\* the arms that hold a read guard while the body runs
HoldsGuard(path) == path \in {"segment", "params_failed", "lock_failed"}

\* how many times an arm invokes func
BodyCalls(path) == 1

\* (mutant) the fallback arms return a default value
RunnerResultDefault(path, bodyRet) ==
    IF path = "segment" THEN bodyRet ELSE "v1"

\* what the runner returns, given what the body returned
RunnerResult(path, bodyRet) == bodyRet

\* a segment runner is called
SegmentCall(r, t, op) ==
    /\ Live(r, t)
    /\ CanCall(r, t)
    /\ LET path == SegmentPath(op, txnCache[r].variant, FALSE, TRUE) IN
        stack' = Push(r, t,
            IF path # "inert"
            THEN Frame(op, "read", NoRet, 0, NoRet, NoRet)
            ELSE IF BodyCalls(path) > 0
            THEN [Frame(op, "body", path, BodyCalls(path), NoRet, NoRet)
                     EXCEPT !.ctx = SegmentContext(path)]
            ELSE Frame(op, "returned", path, 0, NoRet, NoRet))
    /\ UNCHANGED <<setupVars, phase, cacheVars, hook, responded, lockVars,
                   lockFault, handed, backendVars>>

\* inner.0.read() returns in a segment runner, the arm is chosen and the
\* body is invoked
SegmentEnter(r, t) ==
    /\ Live(r, t)
    /\ ~Idle(r, t)
    /\ Top(r, t).op \in Segments /\ Top(r, t).pc = "read"
    /\ CanRead(r)
    /\ \E paramsOk \in BOOLEAN :
        LET op   == Top(r, t).op
            path == SegmentPath(op, txnCache[r].variant, poisoned[r],
                                paramsOk)
            n    == BodyCalls(path)
        IN  /\ paramsOk \/ path = "params_failed"
            /\ bSegs' = [bSegs EXCEPT ![r] = @ \/ UsesBackend(path)]
            /\ lockFault' = [lockFault EXCEPT ![r] =
                                @ \/ PropagatesLockError(path)]
            /\ IF n > 0
               THEN /\ stack' = SetTop(r, t,
                                   [Frame(op, "body", path, n, NoRet, NoRet)
                                       EXCEPT !.ctx = SegmentContext(path)])
                    /\ readers' = [readers EXCEPT ![r] =
                                      IF HoldsGuard(path) THEN @ + 1 ELSE @]
               ELSE /\ stack' = SetTop(r, t,
                                   Frame(op, "returned", path, 0, NoRet,
                                         NoRet))
                    /\ UNCHANGED readers
    /\ UNCHANGED <<setupVars, phase, cacheVars, hook, responded, writer,
                   poisoned, lockPolicy, handed, bStarts, bState, bAttrs,
                   bErrors, bEnds, bName>>

\* the body returns v; the runner returns and its guard is dropped
BodyReturn(r, t, v) ==
    /\ Live(r, t)
    /\ ~Idle(r, t)
    /\ Top(r, t).op \in Segments /\ Top(r, t).pc = "body"
    /\ stack' = SetTop(r, t, [Top(r, t) EXCEPT !.pc = "returned",
                    !.bodyRet = v, !.ret = RunnerResult(Top(r, t).path, v)])
    /\ readers' = [readers EXCEPT ![r] =
                      IF HoldsGuard(Top(r, t).path) THEN @ - 1 ELSE @]
    /\ UNCHANGED <<setupVars, phase, cacheVars, hook, responded, writer,
                   poisoned, lockPolicy, lockFault, handed, backendVars>>

(***************************************************************************)
(* NewRelic::on_response                                                   *)
(***************************************************************************)
ErrorPriority == 100

\* (mutant) an error is recorded whatever the status
RecordsErrorAlways(status) == TRUE

\* whether on_response records an error for the status
RecordsError(status) == ~IsSuccess(status)

\* the arm on_response takes once write() has returned
ResponsePath(poison) == IF poison THEN "lock_failed" ELSE "finalize"

\* (mutant) on_response goes on whatever the cached variant
FinalizesAlways(variant) == TRUE

\* if let Transaction::Running(inner) = ..: the variants on_response locks,
\* annotates and ends
Finalizes(variant) == variant = "Running"

\* on_response is called: request.local_cache(|| Transaction::None).
\* The two hooks belong to one fairing: on_response runs for the requests
\* on_request has run for.
OnResponse(r, status) ==
    /\ r \in Reqs
    /\ phase[r] = "handling"
    /\ appCache[r] = "App"
    /\ hook[r].pc = "idle"
    /\ LET txn == LocalCache(txnCache[r], txnCache[r] = Unset, Inert) IN
        /\ txnCache' = [txnCache EXCEPT ![r] = txn]
        /\ IF Finalizes(txn.variant)
           THEN /\ hook' = [hook EXCEPT ![r] =
                               [pc |-> "write", status |-> status,
                                noticed |-> "none"]]
                /\ UNCHANGED responded
           ELSE /\ responded' = [responded EXCEPT ![r] = TRUE]
                /\ UNCHANGED hook
    /\ UNCHANGED <<setupVars, phase, appCache, lockVars, stack, lockFault,
                   handed, backendVars>>

\* inner.0.write() returns
OnResponseLock(r) ==
    /\ r \in Reqs
    /\ hook[r].pc = "write"
    /\ CanWrite(r)
    /\ LET path == ResponsePath(poisoned[r]) IN
        /\ lockFault' = [lockFault EXCEPT ![r] =
                            @ \/ PropagatesLockError(path)]
        /\ IF path = "finalize"
           THEN /\ writer' = [writer EXCEPT ![r] = TRUE]
                /\ hook' = [hook EXCEPT ![r].pc = "held"]
                /\ UNCHANGED responded
           ELSE /\ hook' = [hook EXCEPT ![r] = HookIdle]
                /\ responded' = [responded EXCEPT ![r] = TRUE]
                /\ UNCHANGED writer
    /\ UNCHANGED <<setupVars, phase, cacheVars, readers, poisoned,
                   lockPolicy, stack, handed, backendVars>>

\* "Record any errors": noticed is what notice_error answered
OnResponseRecord(r) ==
    /\ r \in Reqs
    /\ hook[r].pc = "held"
    /\ \E accepted \in BOOLEAN :
        LET records == RecordsError(hook[r].status) IN
        /\ records \/ accepted
        /\ bErrors' = [bErrors EXCEPT ![r] =
                          IF records
                          THEN BackendNoticeError(@, bState[r], ErrorPriority,
                                   StatusToString(hook[r].status), "",
                                   accepted)
                          ELSE @]
        /\ hook' = [hook EXCEPT ![r].pc = "ending",
                                 ![r].noticed = IF ~records THEN "none"
                                                ELSE IF accepted THEN "ok"
                                                ELSE "err"]
    /\ UNCHANGED <<setupVars, phase, cacheVars, responded, lockVars, stack,
                   lockFault, handed, bStarts, bState, bAttrs, bEnds, bSegs,
                   bName>>

\* (mutant) the transaction is left to end when it is dropped
EndsOnlyOnDrop == FALSE

\* "End the transaction explicitly here": on_response calls t.end()
EndsExplicitly == TRUE

\* (mutant) a rejected notice_error returns from on_response
EndsAfterUnlessRejected(noticed) == noticed # "err"

\* t.end() follows the if-let on notice_error's answer, which only warns
EndsAfter(noticed) == TRUE

\* t.end(), and the write guard is dropped
OnResponseEnd(r) ==
    /\ r \in Reqs
    /\ hook[r].pc = "ending"
    /\ LET ends == EndsExplicitly /\ EndsAfter(hook[r].noticed) IN
        /\ bState' = [bState EXCEPT ![r] =
                         IF ends THEN BackendEndState(@) ELSE @]
        /\ bEnds' = [bEnds EXCEPT ![r] =
                        IF ends THEN BackendEndCount(bState[r], @) ELSE @]
    /\ writer' = [writer EXCEPT ![r] = FALSE]
    /\ hook' = [hook EXCEPT ![r] = HookIdle]
    /\ responded' = [responded EXCEPT ![r] = TRUE]
    /\ UNCHANGED <<setupVars, phase, cacheVars, readers, poisoned,
                   lockPolicy, stack, lockFault, handed, bStarts, bAttrs,
                   bErrors, bSegs, bName>>

\* a panic unwinds through on_response while it holds the write guard: the
\* guard is dropped and the lock is poisoned
OnResponsePanic(r) ==
    /\ r \in Reqs
    /\ hook[r].pc \in {"held", "ending"}
    /\ writer' = [writer EXCEPT ![r] = FALSE]
    /\ poisoned' = [poisoned EXCEPT ![r] = TRUE]
    /\ hook' = [hook EXCEPT ![r] = HookIdle]
    /\ UNCHANGED <<setupVars, phase, cacheVars, responded, readers,
                   lockPolicy, stack, lockFault, handed, backendVars>>

(***************************************************************************)
(* After the hooks: transmission and teardown                              *)
(***************************************************************************)
\* the response starts being sent: the handler is done and, where the
\* fairing is attached, on_response has run
StartSending(r) ==
    /\ r \in Reqs
    /\ phase[r] = "handling"
    /\ hook[r].pc = "idle"
    /\ AllIdle(r)
    /\ responded[r] \/ appCache[r] # "App"
    /\ phase' = [phase EXCEPT ![r] = "sending"]
    /\ UNCHANGED <<setupVars, cacheVars, hook, responded, lockVars, stack,
                   lockFault, handed, backendVars>>

\* (mutant) the backend transaction is not owned by the cached value
DropEndsNever(variant) == FALSE

\* dropping the cached Transaction drops the backend transaction it owns
DropEnds(variant) == variant = "Running"

\* the request is dropped, after the response was sent or on an abort: its
\* local cache is destroyed
DropRequest(r) ==
    /\ r \in Reqs
    /\ phase[r] \in {"handling", "sending"}
    /\ hook[r].pc = "idle"
    /\ AllIdle(r)
    /\ phase' = [phase EXCEPT ![r] = "dropped"]
    /\ bState' = [bState EXCEPT ![r] =
                     IF DropEnds(txnCache[r].variant)
                     THEN BackendEndState(@) ELSE @]
    /\ bEnds' = [bEnds EXCEPT ![r] =
                    IF DropEnds(txnCache[r].variant)
                    THEN BackendEndCount(bState[r], @) ELSE @]
    /\ UNCHANGED <<setupVars, cacheVars, hook, responded, lockVars, stack,
                   lockFault, handed, bStarts, bAttrs, bErrors, bSegs, bName>>

(***************************************************************************)
(* NewRelic::from_env, step by step                                        *)
(***************************************************************************)
\* let app_name = env::var("NEW_RELIC_APP_NAME")?;
FromEnvAppName ==
    /\ boot.pc = "app_name"
    /\ boot' = IF EnvVar(boot.env.app) = "Err" THEN BootFail("app_name")
               ELSE [boot EXCEPT !.pc = "license_key"]
    /\ UNCHANGED requestVars

\* let license_key = env::var("NEW_RELIC_LICENSE_KEY")?;
FromEnvLicenseKey ==
    /\ boot.pc = "license_key"
    /\ boot' = IF EnvVar(boot.env.key) = "Err" THEN BootFail("license_key")
               ELSE [boot EXCEPT !.pc = "log_level"]
    /\ UNCHANGED requestVars

\* if let Ok(level) = env::var("NEW_RELIC_LOG_LEVEL"): the level is parsed
\* and NewRelicConfig::default().logging(level, ..).init()? is called
FromEnvLogLevel ==
    /\ boot.pc = "log_level"
    /\ IF EnvVar(boot.env.level) = "Err"
       THEN boot' = [boot EXCEPT !.pc = "new"]
       ELSE LET level == LevelOrDefault(ParseLevel(boot.env.level)) IN
            IF level = "Err"
            THEN boot' = BootFail("log_level")
            ELSE \E initOk \in BOOLEAN :
                    boot' = [(IF initOk THEN [boot EXCEPT !.pc = "new"]
                              ELSE BootFail("init"))
                                EXCEPT !.level = level, !.inits = @ + 1]
    /\ UNCHANGED requestVars

\* Self::new(&app_name, &license_key): newrelic::App::new registers the
\* application
FromEnvNew ==
    /\ boot.pc = "new"
    /\ \E registered \in BOOLEAN :
        boot' = [boot EXCEPT !.pc = "done",
                             !.registrations = @ + 1,
                             !.result = IF registered THEN "Ok" ELSE "Err",
                             !.cause = IF registered THEN "-" ELSE "register"]
    /\ UNCHANGED requestVars

(***************************************************************************)
(* Specification                                                           *)
(***************************************************************************)
\* one task per request, with nesting, and the hooks of the pipeline
Next ==
    \E r \in AllRequests :
        \/ OnRequest(r)
        \/ RouteUnattached(r)
        \/ \E t \in AllTasks :
            \/ FromRequestApp(r, t)
            \/ FromRequestNew(r, t)
            \/ FromRequestNone(r, t)
            \/ AttrCall(r, t)
            \/ AttrLock(r, t)
            \/ \E key \in Keys, value \in AttrValues :
                AttrForward(r, t, key, value)
            \/ \E op \in Segments : SegmentCall(r, t, op)
            \/ SegmentEnter(r, t)
            \/ \E v \in Values : BodyReturn(r, t, v)
            \/ Return(r, t)
        \/ \E status \in Statuses : OnResponse(r, status)
        \/ OnResponseLock(r)
        \/ OnResponseRecord(r)
        \/ OnResponseEnd(r)
        \/ OnResponsePanic(r)
        \/ StartSending(r)
        \/ DropRequest(r)

Spec == Init /\ [][Next]_vars

\* two tasks per request, on the smaller inputs
InitConc == InitFor(MainRequests, AllTasks, {MainRoute}) /\ boot = Built

NextConc ==
    \E r \in AllRequests :
        \/ OnRequest(r)
        \/ RouteUnattached(r)
        \/ \E t \in AllTasks :
            \/ FromRequestApp(r, t)
            \/ FromRequestNew(r, t)
            \/ FromRequestNone(r, t)
            \/ AttrCall(r, t)
            \/ AttrLock(r, t)
            \/ \E key \in ConcKeys, value \in ConcAttrValues :
                AttrForward(r, t, key, value)
            \/ \E op \in ConcSegments : SegmentCall(r, t, op)
            \/ SegmentEnter(r, t)
            \/ \E v \in ConcValues : BodyReturn(r, t, v)
            \/ Return(r, t)
        \/ \E status \in ConcStatuses : OnResponse(r, status)
        \/ OnResponseLock(r)
        \/ OnResponseRecord(r)
        \/ OnResponseEnd(r)
        \/ OnResponsePanic(r)
        \/ StartSending(r)
        \/ DropRequest(r)

SpecConc == InitConc /\ [][NextConc]_vars

\* one request on each of the routes: the accessor and the hooks
InitName == InitFor(MainRequests, Handler, Routes) /\ boot = Built

NextName ==
    \E r \in AllRequests :
        \/ OnRequest(r)
        \/ RouteUnattached(r)
        \/ \E t \in AllTasks :
            \/ FromRequestApp(r, t)
            \/ FromRequestNew(r, t)
            \/ FromRequestNone(r, t)
            \/ Return(r, t)
        \/ \E status \in Statuses : OnResponse(r, status)
        \/ OnResponseLock(r)
        \/ OnResponseRecord(r)
        \/ OnResponseEnd(r)
        \/ StartSending(r)
        \/ DropRequest(r)

SpecName == InitName /\ [][NextName]_vars

\* two requests in flight: every operation for the one, and for the other
\* the operations that build its cache entries and its transaction's
\* state, on the smaller inputs.  The lock lets readers in past a waiting
\* writer: every step of the other policy is a step of this one.
InitIso ==
    /\ InitFor(AllRequests, Handler, {MainRoute})
    /\ boot = Built
    /\ lockPolicy = "reader_pref"

NextIso ==
    \/ \E r \in MainRequests :
        \/ OnRequest(r)
        \/ RouteUnattached(r)
        \/ \E t \in AllTasks :
            \/ FromRequestApp(r, t)
            \/ FromRequestNew(r, t)
            \/ FromRequestNone(r, t)
            \/ AttrCall(r, t)
            \/ AttrLock(r, t)
            \/ \E key \in ConcKeys, value \in ConcAttrValues :
                AttrForward(r, t, key, value)
            \/ \E op \in IsoSegments : SegmentCall(r, t, op)
            \/ SegmentEnter(r, t)
            \/ \E v \in ConcValues : BodyReturn(r, t, v)
            \/ Return(r, t)
        \/ \E status \in ConcStatuses : OnResponse(r, status)
        \/ OnResponseLock(r)
        \/ OnResponseRecord(r)
        \/ OnResponseEnd(r)
        \/ StartSending(r)
        \/ DropRequest(r)
    \/ \E r \in AllRequests \ MainRequests :
        \/ OnRequest(r)
        \/ \E t \in AllTasks :
            \/ FromRequestApp(r, t)
            \/ FromRequestNew(r, t)
            \/ Return(r, t)
        \/ \E status \in ConcStatuses : OnResponse(r, status)
        \/ OnResponseLock(r)
        \/ OnResponseRecord(r)
        \/ OnResponseEnd(r)
        \/ DropRequest(r)

SpecIso == InitIso /\ [][NextIso]_vars

\* the construction of the fairing from every environment, before any
\* request
InitEnv ==
    /\ InitFor({}, {}, {})
    /\ boot \in {BootStart(e) : e \in Environments}

NextEnv ==
    \/ FromEnvAppName
    \/ FromEnvLicenseKey
    \/ FromEnvLogLevel
    \/ FromEnvNew

SpecEnv == InitEnv /\ [][NextEnv]_vars

(***************************************************************************)
(* Properties                                                              *)
(***************************************************************************)
TopIs(r, t, op, pc) ==
    /\ ~Idle(r, t)
    /\ Top(r, t).op = op
    /\ Top(r, t).pc = pc

\* C1: however the accessor calls of a request interleave, the backend's
\* web_transaction is called at most once for it and every accessor call
\* returns the one memoized transaction.
C1_StartAtMostOnce ==
    \A r \in Reqs :
        /\ bStarts[r] <= 1
        /\ Cardinality(handed[r]) <= 1
        /\ handed[r] \subseteq {txnCache[r]}

\* two accessor calls of one request have both returned, one having created
\* the running transaction and the other having found it
C1_Witness ==
    \E r \in Reqs :
        /\ bStarts[r] = 1
        /\ txnCache[r].variant = "Running"
        /\ \E t \in Tasks(r), u \in Tasks(r) :
            /\ TopIs(r, t, "from_request", "returned")
            /\ TopIs(r, u, "from_request", "returned")
            /\ Top(r, t).path = "created"
            /\ Top(r, u).path = "memoized"

\* C2: ending twice (on_response's end, then the end on drop; or on_response
\* twice) finalizes the backend transaction at most once.
C2_FinalizedAtMostOnce ==
    \A r \in Reqs :
        /\ bEnds[r] <= 1
        /\ bEnds[r] = 1 <=> bState[r] = "ended"

\* on_response ended the running transaction and the request was dropped
\* afterwards
C2_Witness ==
    \E r \in Reqs :
        /\ phase[r] = "dropped"
        /\ txnCache[r].variant = "Running"
        /\ responded[r] /\ ~poisoned[r]
        /\ bEnds[r] = 1

\* C3: on every arm of custom_segment, datastore_segment and
\* external_segment the body is invoked exactly once and the runner returns
\* the value the body returned.
C3_BodyOnceResultForwarded ==
    \A r \in Reqs : \A f \in FramesOf(r) :
        f.op \in Segments /\ f.pc \in {"body", "returned"} =>
            /\ f.calls = 1
            /\ f.pc = "returned" => f.bodyRet \in Values /\ f.ret = f.bodyRet

\* inside a datastore segment whose parameters could not be built, a custom
\* segment run by the backend has returned its body's value
C3_Witness ==
    \E r \in Reqs : \E t \in Tasks(r) :
        /\ Depth(r, t) = 2
        /\ stack[r][t][1].op = "datastore_segment"
        /\ stack[r][t][1].path = "params_failed"
        /\ TopIs(r, t, "custom_segment", "returned")
        /\ Top(r, t).path = "segment"
        /\ Top(r, t).ret = "v2"

\* C4: when the backend fails to start the transaction the accessor caches
\* Transaction::None, and on Transaction::None no operation and no hook
\* calls the backend, takes the lock or fails.
C4_InertIsNoOp ==
    \A r \in Reqs :
        /\ bStarts[r] >= 1 /\ bState[r] = "none" => txnCache[r] = Inert
        /\ txnCache[r].variant = "None" =>
            /\ bState[r] = "none"
            /\ bAttrs[r] = NoAttrs
            /\ bErrors[r] = <<>>
            /\ bEnds[r] = 0
            /\ ~bSegs[r]
            /\ ~lockFault[r]
            /\ readers[r] = 0 /\ ~writer[r] /\ hook[r].pc = "idle"
            /\ \A f \in FramesOf(r) :
                /\ f.op = "add_attribute" => f.path = "inert" /\ f.calls = 0
                /\ f.op \in Segments => f.path = "inert" /\ f.ctx = "noop"

\* after a failed start, on_response has run and a segment runner has
\* returned its body's value
C4_Witness ==
    \E r \in Reqs : \E t \in Tasks(r) :
        /\ bStarts[r] = 1
        /\ txnCache[r] = Inert
        /\ responded[r]
        /\ TopIs(r, t, "custom_segment", "returned")
        /\ Top(r, t).ret = "v2"

\* C5: on a poisoned lock no operation fails: add_attribute returns without
\* calling the backend, the segment runners run their body once with the
\* no-op segment, and on_response returns without recording an error or
\* ending the transaction.
C5_LockFailureIsNoOp ==
    /\ [](\A r \in Reqs :
            /\ ~lockFault[r]
            /\ \A f \in FramesOf(r) :
                f.path = "lock_failed" =>
                    IF f.op = "add_attribute" THEN f.calls = 0
                    ELSE f.ctx = "noop" /\ f.calls = 1)
    /\ [][\A r \in Reqs :
            hook[r].pc = "write" /\ poisoned[r] /\ hook'[r].pc # "write" =>
                /\ hook'[r].pc = "idle"
                /\ bErrors'[r] = bErrors[r]
                /\ bState'[r] = bState[r]
                /\ bEnds'[r] = bEnds[r]]_vars

\* on a poisoned lock on_response has returned, leaving the transaction
\* running, and a segment runner has returned from its Err arm
C5_Witness ==
    \E r \in Reqs : \E t \in Tasks(r) :
        /\ poisoned[r]
        /\ responded[r]
        /\ bState[r] = "running"
        /\ ~Idle(r, t)
        /\ Top(r, t).op \in Segments
        /\ Top(r, t).pc = "returned"
        /\ Top(r, t).path = "lock_failed"

\* a call of the task holds a read guard
HoldsRead(r, t) ==
    \E i \in 1..Depth(r, t) :
        LET f == stack[r][t][i] IN
        \/ f.op = "add_attribute" /\ f.pc = "held"
        \/ f.op \in Segments /\ f.pc = "body" /\ HoldsGuard(f.path)

\* the task waits in read() and read() cannot return
BlockedInRead(r, t) ==
    /\ ~Idle(r, t)
    /\ Top(r, t).pc = "read"
    /\ ~CanRead(r)

\* on_response waits in write() for the readers, and every task that holds
\* a read guard waits in a nested read() for on_response
LockDeadlock(r) ==
    /\ WriterWaiting(r)
    /\ readers[r] > 0
    /\ \A t \in Tasks(r) : HoldsRead(r, t) => BlockedInRead(r, t)

\* C6: a segment body that starts another operation on its transaction
\* never deadlocks the RwLock, whatever the other readers and a pending
\* on_response do.
C6_NestingNeverDeadlocks == \A r \in Reqs : ~LockDeadlock(r)

\* C7: while on_response holds the write guard no add_attribute or segment
\* runner holds a read guard; the read guards alive are those of the calls
\* in progress, and a reader never waits for other readers.
C7_ReadersWriterDiscipline ==
    \A r \in Reqs :
        /\ writer[r] =>
            /\ readers[r] = 0
            /\ \A t \in Tasks(r) : ~HoldsRead(r, t)
            /\ hook[r].pc \in {"held", "ending"}
        /\ readers[r] = Cardinality({p \in FramePositions(r) :
              LET f == stack[r][p[1]][p[2]] IN
              \/ f.op = "add_attribute" /\ f.pc = "held"
              \/ f.op \in Segments /\ f.pc = "body" /\ HoldsGuard(f.path)})
        /\ \A t \in Tasks(r) :
            (~Idle(r, t) /\ ~writer[r] /\ ~WriterWaiting(r)) =>
                /\ TopIs(r, t, "add_attribute", "read") =>
                       ENABLED AttrLock(r, t)
                /\ Top(r, t).op \in Segments /\ Top(r, t).pc = "read" =>
                       ENABLED SegmentEnter(r, t)

\* an add_attribute of one task and a segment body of another task hold
\* the read lock at the same time
C7_Witness ==
    \E r \in Reqs : \E t \in Tasks(r), u \in Tasks(r) :
        /\ t # u
        /\ TopIs(r, t, "add_attribute", "held")
        /\ TopIs(r, u, "datastore_segment", "body")
        /\ HoldsGuard(Top(r, u).path)
        /\ readers[r] = 2

\* C8 as claimed: once on_response has passed "Record any errors" on a
\* running transaction, a non-success status has left exactly one error
\* annotation, carrying that status, and a success status none.
C8_OneAnnotationPerFailure ==
    \A r \in Reqs :
        hook[r].pc = "ending" =>
            IF IsSuccess(hook[r].status)
            THEN hook[r].noticed = "none"
            ELSE /\ Len(bErrors[r]) = 1
                 /\ bErrors[r][1].message = StatusToString(hook[r].status)

FailureMessages == {StatusToString(st) : st \in {x \in Statuses : ~IsSuccess(x)}}

\* C8, amended: with the write guard held, on_response calls notice_error
\* exactly once for a non-success status, with priority 100, the status's
\* display string and an empty class, and not at all for a success status;
\* the annotation is recorded when the backend accepts the call on a
\* transaction that has not ended, and errors are recorded nowhere else.
C8_OneNoticeCallPerFailure ==
    /\ [](\A r \in Reqs :
            /\ Len(bErrors[r]) <= 1
            /\ \A i \in 1..Len(bErrors[r]) :
                /\ bErrors[r][i].priority = 100
                /\ bErrors[r][i].class = ""
                /\ bErrors[r][i].message \in FailureMessages
            /\ hook[r].pc = "ending" =>
                /\ hook[r].noticed = "none" <=> IsSuccess(hook[r].status)
                /\ hook[r].noticed = "ok" /\ bState[r] = "running" =>
                    bErrors[r] = << [priority |-> 100,
                        message |-> StatusToString(hook[r].status),
                        class |-> ""] >>)
    /\ [][\A r \in Reqs :
            bErrors'[r] # bErrors[r] =>
                /\ hook[r].pc = "held"
                /\ ~IsSuccess(hook[r].status)
                /\ hook'[r].noticed = "ok"]_vars

\* on_response has recorded the annotation for a 500 response
C8_Witness ==
    \E r \in Reqs :
        /\ hook[r].pc = "ending"
        /\ hook[r].status = 500
        /\ bErrors[r] = << [priority |-> 100,
                            message |-> "500 Internal Server Error",
                            class |-> ""] >>

\* C9: when the request's cache is destroyed the backend transaction has
\* been ended, whether on_response ran, never ran or found the lock poisoned.
C9_EndedWhenDropped ==
    \A r \in Reqs :
        phase[r] = "dropped" =>
            /\ bState[r] # "running"
            /\ txnCache[r].variant = "Running" =>
                   bState[r] = "ended" /\ bEnds[r] = 1

\* on_response found the lock poisoned, and the request was dropped with
\* its transaction ended
C9_Witness ==
    \E r \in Reqs :
        /\ phase[r] = "dropped"
        /\ txnCache[r].variant = "Running"
        /\ poisoned[r] /\ responded[r]
        /\ bState[r] = "ended"

\* C10 as claimed: whenever the response of a request with a running
\* transaction starts being sent, the transaction has been ended.
C10_EndedBeforeSending ==
    \A r \in Reqs :
        phase[r] = "sending" /\ txnCache[r].variant = "Running" =>
            bState[r] = "ended"

\* C10, amended: whenever the response of a request with a running
\* transaction whose lock is not poisoned starts being sent, the
\* transaction has been ended (by on_response).
C10_EndedBeforeSendingUnlessPoisoned ==
    \A r \in Reqs :
        ( /\ phase[r] = "sending"
          /\ txnCache[r].variant = "Running"
          /\ ~poisoned[r] ) => bState[r] = "ended" /\ bEnds[r] = 1

\* the response of a request with a running transaction is being sent, the
\* lock is sound and the transaction is ended
C10_Witness ==
    \E r \in Reqs :
        /\ phase[r] = "sending"
        /\ txnCache[r].variant = "Running"
        /\ ~poisoned[r]
        /\ bState[r] = "ended"

\* C11: creation is lazy.  on_request starts no backend transaction and
\* resolves nothing; web_transaction is called only by the accessor call
\* that is the first to return, on a slot that holds nothing; so while no
\* accessor call has returned the request has started no transaction.
C11_CreationIsLazy ==
    /\ [](\A r \in Reqs :
            /\ phase[r] = "arrived" => bStarts[r] = 0
            /\ handed[r] = {} => bStarts[r] = 0 /\ bState[r] = "none")
    /\ [][\A r \in Reqs :
            /\ phase[r] = "arrived" /\ phase'[r] # "arrived" =>
                /\ bStarts'[r] = 0
                /\ bState'[r] = "none"
                /\ txnCache'[r] = Unset
            /\ bStarts'[r] # bStarts[r] =>
                /\ bStarts'[r] = bStarts[r] + 1
                /\ txnCache[r] = Unset
                /\ handed[r] = {} /\ handed'[r] # {}
                /\ \E t \in Tasks(r) :
                    /\ TopIs(r, t, "from_request", "txn")
                    /\ stack'[r][t][Len(stack'[r][t])].path = "created"]_vars

\* the fairing was attached, no handler asked for the transaction, and the
\* response is being sent: no transaction was started
C11_Witness ==
    \E r \in Reqs :
        /\ phase[r] = "sending"
        /\ appCache[r] = "App"
        /\ responded[r]
        /\ handed[r] = {}
        /\ bStarts[r] = 0

\* C12: while no accessor call of a request has returned, on_response does
\* nothing to the backend whatever the status: no transaction is started,
\* no error recorded, nothing ended, no lock taken; it leaves
\* Transaction::None cached.
C12_NoAccessorNoBackendCall ==
    \A r \in Reqs :
        handed[r] = {} =>
            /\ bStarts[r] = 0
            /\ bState[r] = "none"
            /\ bAttrs[r] = NoAttrs
            /\ bErrors[r] = <<>>
            /\ bEnds[r] = 0
            /\ hook[r].pc = "idle"
            /\ ~writer[r]
            /\ responded[r] => txnCache[r] = Inert

\* on_response has returned for a request whose handler, still running,
\* has not asked for the transaction
C12_Witness ==
    \E r \in Reqs :
        /\ phase[r] = "handling"
        /\ handed[r] = {}
        /\ responded[r]
        /\ txnCache[r] = Inert

\* C13: the cached transaction goes Uncreated -> Running (the backend
\* started it) or Inert (nothing started) and the backend transaction of a
\* Running one goes running -> ended, and nothing else: a resolved slot
\* never changes, whatever hook or accessor call runs later, and an ended
\* transaction stays ended.
C13_StateMachine ==
    /\ [](\A r \in Reqs :
            /\ txnCache[r].variant \in {"Unset", "Running", "None"}
            /\ txnCache[r].variant # "Running" => bState[r] = "none"
            /\ txnCache[r].variant = "Running" =>
                   bState[r] \in {"running", "ended"}
            /\ bEnds[r] > 0 => bState[r] = "ended")
    /\ [][\A r \in Reqs :
            /\ txnCache[r] # Unset => txnCache'[r] = txnCache[r]
            /\ bState[r] = "none" => bState'[r] \in {"none", "running"}
            /\ bState[r] = "running" => bState'[r] \in {"running", "ended"}
            /\ bState[r] = "ended" => bState'[r] = "ended"
            /\ bEnds'[r] >= bEnds[r]]_vars

\* after on_response has ended the transaction, an accessor call has
\* returned the same Running value
C13_Witness ==
    \E r \in Reqs : \E t \in Tasks(r) :
        /\ bState[r] = "ended"
        /\ phase[r] = "handling"
        /\ TopIs(r, t, "from_request", "returned")
        /\ Top(r, t).path = "memoized"
        /\ Top(r, t).ret = "Running"

\* C14: without a stashed handle (the fairing's on_request did not run) the
\* accessor calls nothing of the backend and caches Transaction::None, and
\* every accessor call of the request returns that Transaction::None.
C14_NoHandleMemoizesInert ==
    \A r \in Reqs :
        appCache[r] # "App" =>
            /\ txnCache[r] \in {Unset, Inert}
            /\ handed[r] \subseteq {Inert}
            /\ bStarts[r] = 0
            /\ bState[r] = "none"
            /\ bAttrs[r] = NoAttrs
            /\ bErrors[r] = <<>>
            /\ bEnds[r] = 0
            /\ ~bSegs[r]
            /\ \A f \in FramesOf(r) :
                f.op = "from_request" =>
                    /\ f.path \in {"no_app", "created", "memoized"}
                    /\ f.pc = "returned" =>
                        f.ret = "None" /\ txnCache[r] = Inert

\* without a handle, a later accessor call has returned the memoized
\* Transaction::None
C14_Witness ==
    \E r \in Reqs : \E t \in Tasks(r) :
        /\ appCache[r] = "None"
        /\ handed[r] = {Inert}
        /\ TopIs(r, t, "from_request", "returned")
        /\ Top(r, t).path = "memoized"
        /\ Top(r, t).ret = "None"

\* C15: the accessor never fails the request: once called it can always go
\* on to return, and what it returns is Outcome::Success with the cached
\* transaction, Running or Transaction::None, whether the handle is there
\* or not and whether web_transaction and the uri attribute succeed or not.
C15_AccessorNeverFails ==
    \A r \in Reqs : \A t \in Tasks(r) :
        /\ TopIs(r, t, "from_request", "txn") =>
            ENABLED (FromRequestNew(r, t) \/ FromRequestNone(r, t))
        /\ TopIs(r, t, "from_request", "returned") =>
            /\ Top(r, t).outcome = "Success"
            /\ Top(r, t).ret \in {"Running", "None"}
            /\ Top(r, t).ret = txnCache[r].variant
            /\ txnCache[r] \in handed[r]

\* with the handle stashed, web_transaction failed and the accessor
\* returned Success with Transaction::None
C15_Witness ==
    \E r \in Reqs : \E t \in Tasks(r) :
        /\ appCache[r] = "App"
        /\ bStarts[r] = 1
        /\ bState[r] = "none"
        /\ TopIs(r, t, "from_request", "returned")
        /\ Top(r, t).path = "created"
        /\ Top(r, t).outcome = "Success"
        /\ Top(r, t).ret = "None"

\* C16 as claimed: when an add_attribute call on a running transaction has
\* returned, the recorded attribute set holds the call's value under the
\* call's key (the last write to that key), the key "uri" included.
C16_LastWriteWins ==
    \A r \in Reqs : \A t \in Tasks(r) :
        ( /\ TopIs(r, t, "add_attribute", "returned")
          /\ txnCache[r].variant = "Running"
          /\ bState[r] = "running" ) =>
            bAttrs[r][Top(r, t).key] = Top(r, t).value

\* C16, amended: the recorded attribute set holds, for each key, the value
\* of the last add_attribute call for that key that reached the backend
\* (lock not poisoned) and that the backend accepted; "uri" starts as the
\* request's URI when creation recorded it, and is overwritten like any
\* key.  A rejected call, a call on a poisoned lock and every other
\* operation leave the recorded set as it is.
C16_LastAcceptedWriteWins ==
    /\ [](\A r \in Reqs : \A t \in Tasks(r) :
            TopIs(r, t, "add_attribute", "returned") =>
                /\ Top(r, t).answer = "ok" => Top(r, t).path = "forward"
                /\ Top(r, t).answer = "ok" /\ bState[r] = "running" =>
                    bAttrs[r][Top(r, t).key] = Top(r, t).value)
    /\ [][\A r \in Reqs : \A k \in Keys :
            bAttrs'[r][k] # bAttrs[r][k] =>
                \/ /\ bState[r] = "none" /\ bState'[r] = "running"
                   /\ k = "uri"
                   /\ bAttrs'[r][k] = RequestUri
                \/ \E t \in Tasks(r) :
                    /\ TopIs(r, t, "add_attribute", "held")
                    /\ Top(r, t).path = "forward"
                    /\ bState[r] = "running"
                    /\ LET f == stack'[r][t][Len(stack'[r][t])] IN
                        /\ f.pc = "returned"
                        /\ f.answer = "ok"
                        /\ f.key = k
                        /\ f.value = bAttrs'[r][k]]_vars

\* after creation recorded the URI and an earlier call wrote "k", a call
\* has overwritten "uri"
C16_Witness ==
    \E r \in Reqs : \E t \in Tasks(r) :
        /\ TopIs(r, t, "add_attribute", "returned")
        /\ Top(r, t).key = "uri"
        /\ Top(r, t).value = "a"
        /\ Top(r, t).answer = "ok"
        /\ bState[r] = "running"
        /\ bAttrs[r] = [k \in Keys |-> IF k = "uri" THEN "a" ELSE "b"]

Entry(r) ==
    <<phase[r], appCache[r], txnCache[r], hook[r], responded[r], readers[r],
      writer[r], poisoned[r], stack[r], lockFault[r], handed[r], bStarts[r],
      bState[r], bAttrs[r], bErrors[r], bEnds[r], bSegs[r], bName[r],
      route[r]>>

\* a step of a hook, of the accessor or of an operation, performed for r
OperationFor(r) ==
    \/ OnRequest(r)
    \/ RouteUnattached(r)
    \/ \E t \in AllTasks :
        \/ FromRequestApp(r, t)
        \/ FromRequestNew(r, t)
        \/ FromRequestNone(r, t)
        \/ AttrCall(r, t)
        \/ AttrLock(r, t)
        \/ \E key \in Keys, value \in AttrValues :
            AttrForward(r, t, key, value)
        \/ \E op \in Segments : SegmentCall(r, t, op)
        \/ SegmentEnter(r, t)
        \/ \E v \in Values : BodyReturn(r, t, v)
        \/ Return(r, t)
    \/ \E status \in Statuses : OnResponse(r, status)
    \/ OnResponseLock(r)
    \/ OnResponseRecord(r)
    \/ OnResponseEnd(r)
    \/ OnResponsePanic(r)
    \/ StartSending(r)
    \/ DropRequest(r)

\* C18: requests are isolated.  A step of a hook, of the accessor, of
\* add_attribute or of a segment runner performed for one request leaves
\* everything another request owns as it was (cache slots, variant,
\* attributes, error annotations, ended state, lock); no step changes two
\* requests; what they share (the fairing's handle, the platform) never
\* changes.
C18_RequestsIsolated ==
    [][/\ \A a \in Reqs : \A b \in Reqs \ {a} :
            /\ Entry(a)' = Entry(a) \/ Entry(b)' = Entry(b)
            /\ Entry(b)' = Entry(b) \/ ~OperationFor(a)
       /\ boot' = boot
       /\ lockPolicy' = lockPolicy]_vars

\* while a task of request A runs a segment body on A's running
\* transaction, B's transaction has been annotated and ended by B's
\* on_response; A's has neither
C18_Witness ==
    /\ Reqs = {"A", "B"}
    /\ \E t \in Tasks("A") :
        /\ TopIs("A", t, "custom_segment", "body")
        /\ Top("A", t).path = "segment"
    /\ bState["A"] = "running"
    /\ bErrors["A"] = <<>>
    /\ bAttrs["A"]["k"] = "a"
    /\ bState["B"] = "ended"
    /\ Len(bErrors["B"]) = 1
    /\ bAttrs["B"]["k"] = Absent

\* C19: NewRelic::from_env.  Without NEW_RELIC_APP_NAME or
\* NEW_RELIC_LICENSE_KEY it returns an error and has neither configured
\* nor registered anything; with a NEW_RELIC_LOG_LEVEL that does not parse
\* it configures the level Info and goes on: the malformed value is never
\* the cause of a failure.
C19_FromEnv ==
    /\ boot.pc # "done" => ENABLED NextEnv
    /\ (EnvVar(boot.env.app) = "Err" \/ EnvVar(boot.env.key) = "Err") =>
        /\ boot.registrations = 0
        /\ boot.inits = 0
        /\ boot.pc \in {"app_name", "license_key", "done"}
        /\ boot.pc = "done" =>
            /\ boot.result = "Err"
            /\ boot.cause \in {"app_name", "license_key"}
    /\ (EnvVar(boot.env.level) = "Ok" /\ ParseLevel(boot.env.level) = "Err") =>
        /\ boot.cause # "log_level"
        /\ boot.inits > 0 => boot.level = "Info"
        /\ boot.pc = "new" => boot.inits = 1 /\ boot.level = "Info"
        /\ boot.pc = "done" /\ boot.result = "Err" =>
            boot.cause \in {"app_name", "license_key", "init", "register"}

\* with NEW_RELIC_LOG_LEVEL=verbose, from_env has configured the level
\* Info, registered the application and returned Ok
C19_Witness ==
    /\ boot.env = [app |-> "my_app", key |-> "my_key", level |-> "verbose"]
    /\ boot.pc = "done"
    /\ boot.result = "Ok"
    /\ boot.level = "Info"
    /\ boot.inits = 1
    /\ boot.registrations = 1

\* C20: once on_response holds the write guard of a running transaction
\* and does not unwind, it makes the error-recording attempt first (for a
\* non-success status) without ending anything, then calls end() once,
\* whether notice_error answered Ok or Err, and returns; the transaction is
\* ended nowhere else but when the request is dropped.
C20_EndOnceAfterRecording ==
    /\ [](\A r \in Reqs :
            /\ hook[r].pc \in {"held", "ending"} =>
                writer[r] /\ bState[r] \in {"running", "ended"}
            /\ hook[r].pc = "ending" => ENABLED OnResponseEnd(r))
    /\ [][\A r \in Reqs :
            /\ ( /\ hook[r].pc = "held"
                 /\ hook'[r].pc # "held"
                 /\ poisoned'[r] = poisoned[r] ) =>
                /\ hook'[r].pc = "ending"
                /\ hook'[r].noticed = "none" <=> IsSuccess(hook[r].status)
                /\ bState'[r] = bState[r]
                /\ bEnds'[r] = bEnds[r]
            /\ ( /\ hook[r].pc = "ending"
                 /\ hook'[r].pc # "ending"
                 /\ poisoned'[r] = poisoned[r] ) =>
                /\ hook'[r].pc = "idle"
                /\ bState'[r] = "ended"
                /\ bEnds'[r] = IF bState[r] = "running" THEN bEnds[r] + 1
                               ELSE bEnds[r]
                /\ bErrors'[r] = bErrors[r]
                /\ responded'[r]
                /\ ~writer'[r]
            /\ bState'[r] # bState[r] /\ bState'[r] = "ended" =>
                \/ hook[r].pc = "ending" /\ hook'[r].pc = "idle"
                \/ phase[r] # "dropped" /\ phase'[r] = "dropped"]_vars

\* on_response has recorded the error of a failed response and then ended
\* the transaction, once, before the request is dropped
C20_Witness ==
    \E r \in Reqs :
        /\ phase[r] = "handling"
        /\ responded[r]
        /\ hook[r].pc = "idle"
        /\ ~poisoned[r]
        /\ Len(bErrors[r]) = 1
        /\ bState[r] = "ended"
        /\ bEnds[r] = 1

\* C21: when web_transaction succeeds the accessor yields a Running
\* transaction whether the backend records "uri" or rejects it; when it
\* records it, "uri" is the request's URI; when it rejects it, "uri" is
\* absent, the transaction is Running all the same, and as long as it runs
\* the later add_attribute calls and segment runners that find the lock
\* sound reach the backend.
C21_UriFailureNotFatal ==
    \A r \in Reqs : \A t \in Tasks(r) :
        /\ ( TopIs(r, t, "from_request", "returned")
             /\ Top(r, t).answer \in {"ok", "err"} ) =>
                /\ Top(r, t).path = "created"
                /\ Top(r, t).ret = "Running"
                /\ txnCache[r] = Txn("Running", bStarts[r])
                /\ bState[r] \in {"running", "ended"}
                /\ bAttrs[r]["uri"] =
                       IF Top(r, t).answer = "ok" THEN RequestUri ELSE Absent
        /\ ( bState[r] = "running" /\ bAttrs[r]["uri"] = Absent ) =>
                /\ txnCache[r].variant = "Running"
                /\ TopIs(r, t, "add_attribute", "returned") =>
                    /\ Top(r, t).path = "forward" =>
                           /\ Top(r, t).calls = 1
                           /\ Top(r, t).answer \in {"ok", "err"}
                    /\ Top(r, t).answer = "ok" =>
                           bAttrs[r][Top(r, t).key] = Top(r, t).value
                /\ \A i \in 1..Depth(r, t) :
                    LET f == stack[r][t][i] IN
                    ( f.op \in Segments /\ f.pc = "body"
                      /\ f.path = "segment" ) =>
                        f.ctx = "backend" /\ bSegs[r]

\* the backend rejected "uri" at creation; later a segment runner gave its
\* body the backend's segment and, inside it, an add_attribute was accepted
C21_Witness ==
    \E r \in Reqs : \E t \in Tasks(r) :
        /\ bState[r] = "running"
        /\ bAttrs[r]["uri"] = Absent
        /\ Depth(r, t) = 2
        /\ stack[r][t][1].op = "custom_segment"
        /\ stack[r][t][1].ctx = "backend"
        /\ TopIs(r, t, "add_attribute", "returned")
        /\ Top(r, t).key = "k"
        /\ Top(r, t).answer = "ok"
        /\ bAttrs[r]["k"] = "b"

\* C22: while the body of a segment runner that took the backend's arm on a
\* Running transaction executes, the runner's read guard is alive (taken in
\* the step that starts the backend segment, released in the step in which
\* the body returns): on_response does not hold the write guard, its
\* write() cannot return and its end() cannot be the next step.
C22_NoEndDuringSegmentBody ==
    \A r \in Reqs :
        LET bodies == {p \in FramePositions(r) :
                         LET f == stack[r][p[1]][p[2]] IN
                         /\ f.op \in Segments
                         /\ f.pc = "body"
                         /\ UsesBackend(f.path)}
        IN  bodies # {} =>
                /\ txnCache[r].variant = "Running"
                /\ bSegs[r]
                /\ readers[r] >= Cardinality(bodies)
                /\ ~writer[r]
                /\ hook[r].pc \in {"idle", "write"}
                /\ ~ENABLED OnResponseLock(r)
                /\ ~ENABLED OnResponseEnd(r)

\* on_response waits in write() on a running transaction while one task
\* runs a segment body nested in another and the second task runs a body
\* too: three read guards are alive
C22_Witness ==
    \E r \in Reqs : \E t \in Tasks(r), u \in Tasks(r) :
        /\ t # u
        /\ bState[r] = "running"
        /\ hook[r].pc = "write"
        /\ Depth(r, t) = 2
        /\ \A i \in 1..2 : /\ stack[r][t][i].op \in Segments
                            /\ stack[r][t][i].pc = "body"
                            /\ UsesBackend(stack[r][t][i].path)
        /\ TopIs(r, u, "custom_segment", "body")
        /\ UsesBackend(Top(r, u).path)
        /\ readers[r] = 3

====
